---- MODULE Spec2Model ----
(***************************************************************************)
(* Telco billings ETL (exacaster_task): CSV validation, staged bulk load   *)
(* with content-hash deduplication, data quality checks, analytics views   *)
(* and retention, run against one PostgreSQL connection.                   *)
(*                                                                         *)
(* The database is modelled as a committed image plus the image seen by    *)
(* the connection's open transaction; commit copies the second onto the    *)
(* first, rollback the first onto the second (PostgreSQL DDL is            *)
(* transactional).  SQL NULL is the empty tuple <<>>, a value v is <<v>>.  *)
(***************************************************************************)
EXTENDS Integers, Sequences, FiniteSets, TLC

\* ------------------------------------------------------------------ bounds
MaxFileRows == 2
MaxRuns == 2
MaxSampleFileRows == 6

\* ------------------------------------------------------- program constants
EXPECTED_CSV_COLUMNS == 9
VALIDATION_SAMPLE_ROWS == 5
RETENTION_PERIOD_MONTHS == 6

\* Abstract clock, in hours.  CURRENT_TIMESTAMP is Now in every statement.
Now == 10000
HoursPerDay == 24
HoursPerMonth == 720

NULL == <<>>

\* ------------------------------------------------------------- input rows
\* Raw CSV rows as csv.reader yields them: lists of text fields, in the
\* column order customer_id, event_start_time, event_type, rate_plan_id,
\* billing_flag_one, billing_flag_two, duration, charge, month.
RowA == <<"1", "2026-10-31 12:00:00+00", "voice", "10", "0", "0", "60", "1.5", "2026-10">>
\* the same business tuple as RowA written differently, other flags
RowA2 == <<"01", "2026-10-31 14:00:00+02", "voice", "10", "1", "1", "61", "1.50", "2026-10">>
\* a future-dated event with absent duration and month
RowB == <<"2", "2026-11-02 00:00:00+00", "sms", "10", "0", "0", "", "2", "">>
\* an event whose rate_plan_id is absent
RowN == <<"1", "2026-10-31 12:00:00+00", "voice", "", "0", "0", "60", "1.5", "2026-10">>
\* malformed rows: 8 and 10 columns
RowShort == <<"1", "2026-10-31 12:00:00+00", "voice", "10", "0", "0", "60", "1.5">>
RowLong == <<"1", "2026-10-31 12:00:00+00", "voice", "10", "0", "0", "60", "1.5", "2026-10", "x">>

RowPool == {RowA, RowA2, RowB, RowN, RowShort, RowLong}

RECURSIVE SeqsUpTo(_, _)
SeqsUpTo(S, n) ==
    IF n = 0 THEN {<<>>}
    ELSE LET shorter == SeqsUpTo(S, n - 1)
         IN  shorter \cup {Append(s, x) : s \in {t \in shorter : Len(t) = n - 1}, x \in S}

Files == SeqsUpTo(RowPool, MaxFileRows)

\* ----------------------------------------------- COPY text-to-value input
\* copy_from(..., null=''): the empty field is NULL, anything else goes
\* through the column type's input function.
IntegerIn(t) ==
    CASE t = "0" -> 0
      [] t = "1" -> 1
      [] t = "01" -> 1
      [] t = "2" -> 2
      [] t = "10" -> 10

\* FLOAT8 input (whole seconds in the rows used here)
Float8In(t) ==
    CASE t = "60" -> 60
      [] t = "61" -> 61

\* TIMESTAMP WITH TIME ZONE input: an instant, in hours of the model clock.
TimestampTzIn(t) ==
    CASE t = "2026-10-31 12:00:00+00" -> Now - 12
      [] t = "2026-10-31 14:00:00+02" -> Now - 12
      [] t = "2026-11-02 00:00:00+00" -> Now + 24

\* NUMERIC(18,8) input: the value in units of 10^-8.
NumericIn(t) ==
    CASE t = "1.5" -> 150000000
      [] t = "1.50" -> 150000000
      [] t = "2" -> 200000000

TextIn(t) == t

\* a field of the COPY input, by the type of its column
CopyInteger(t) == IF t = "" THEN NULL ELSE <<IntegerIn(t)>>
CopyTimestampTz(t) == IF t = "" THEN NULL ELSE <<TimestampTzIn(t)>>
CopyFloat8(t) == IF t = "" THEN NULL ELSE <<Float8In(t)>>
CopyNumeric(t) == IF t = "" THEN NULL ELSE <<NumericIn(t)>>
CopyText(t) == IF t = "" THEN NULL ELSE <<TextIn(t)>>

\* One staged row: the nine columns of the TEMP staging table.
CopyRow(r) ==
    [customer_id      |-> CopyInteger(r[1]),
     event_start_time |-> CopyTimestampTz(r[2]),
     event_type       |-> CopyText(r[3]),
     rate_plan_id     |-> CopyInteger(r[4]),
     billing_flag_one |-> CopyInteger(r[5]),
     billing_flag_two |-> CopyInteger(r[6]),
     duration         |-> CopyFloat8(r[7]),
     charge           |-> CopyNumeric(r[8]),
     month            |-> CopyText(r[9])]

\* ---------------------------------------------------- generate_event_uuid
\* MD5 is abstracted as a collision-free digest of its input text.
MD5(text) == "md5(" \o text \o ")"

IntegerOut(i) == ToString(i)
TimestampTzOut(t) == ToString(t)
NumericOut(n) == ToString(n)

\* v::TEXT : NULL stays NULL, a value is rendered by its type's output function
IntegerText(v) == IF v = NULL THEN NULL ELSE <<IntegerOut(v[1])>>
TimestampTzText(v) == IF v = NULL THEN NULL ELSE <<TimestampTzOut(v[1])>>
NumericText(v) == IF v = NULL THEN NULL ELSE <<NumericOut(v[1])>>

COALESCE(v, d) == IF v = NULL THEN d ELSE v[1]

\* The function body (RETURN MD5(...)), run only on the arguments it is given.
UuidBody(p_customer_id, p_event_time, p_event_type, p_rate_plan_id, p_charge) ==
    MD5(COALESCE(IntegerText(p_customer_id), "") \o "_" \o
        COALESCE(TimestampTzText(p_event_time), "") \o "_" \o
        COALESCE(p_event_type, "") \o "_" \o
        COALESCE(IntegerText(p_rate_plan_id), "") \o "_" \o
        COALESCE(NumericText(p_charge), ""))

\* LANGUAGE plpgsql IMMUTABLE STRICT: with any NULL argument the body is not
\* executed and the result is NULL.
generate_event_uuid(p_customer_id, p_event_time, p_event_type, p_rate_plan_id, p_charge) ==
    IF \/ p_customer_id = NULL
       \/ p_event_time = NULL
       \/ p_event_type = NULL
       \/ p_rate_plan_id = NULL
       \/ p_charge = NULL
    THEN NULL
    ELSE <<UuidBody(p_customer_id, p_event_time, p_event_type, p_rate_plan_id, p_charge)>>

\* The row the merge's SELECT produces for a staged row s.
WithUuid(s) ==
    [customer_id      |-> s.customer_id,
     event_start_time |-> s.event_start_time,
     event_type       |-> s.event_type,
     rate_plan_id     |-> s.rate_plan_id,
     billing_flag_one |-> s.billing_flag_one,
     billing_flag_two |-> s.billing_flag_two,
     duration         |-> s.duration,
     charge           |-> s.charge,
     month            |-> s.month,
     event_uuid       |-> generate_event_uuid(s.customer_id, s.event_start_time,
                                              s.event_type, s.rate_plan_id, s.charge)]

\* ------------------------------------------------------------ the database
\* tbl: telco_billings_usage exists; fn: generate_event_uuid exists;
\* rows: the table's rows; idx: its secondary indexes; views: analytics views.
NON_PK_INDEXES_TO_CREATE ==
    {[name |-> "idx_billing_customer_id", col |-> "customer_id"],
     [name |-> "idx_billing_event_time",  col |-> "event_start_time"],
     [name |-> "idx_billing_event_type",  col |-> "event_type"],
     [name |-> "idx_billing_month",       col |-> "month"]}

\* the recreate list without the month index
NON_PK_INDEXES_TO_RECREATE_NoMonth ==
    {[name |-> "idx_billing_customer_id", col |-> "customer_id"],
     [name |-> "idx_billing_event_time",  col |-> "event_start_time"],
     [name |-> "idx_billing_event_type",  col |-> "event_type"]}

NON_PK_INDEXES_TO_RECREATE ==
    {[name |-> "idx_billing_customer_id", col |-> "customer_id"],
     [name |-> "idx_billing_event_time",  col |-> "event_start_time"],
     [name |-> "idx_billing_event_type",  col |-> "event_type"],
     [name |-> "idx_billing_month",       col |-> "month"]}

AnalyticsViews == {"analytics_usage_distribution", "analytics_monthly_trends"}

FreshDb == [tbl |-> FALSE, fn |-> FALSE, rows |-> {}, idx |-> {}, views |-> {}]

IndexNames(db) == {ix.name : ix \in db.idx}

\* CREATE TABLE IF NOT EXISTS ...; CREATE OR REPLACE FUNCTION ...;
\* CREATE INDEX IF NOT EXISTS ... for each of NON_PK_INDEXES_TO_CREATE.
SetupDdl(db) ==
    [db EXCEPT !.tbl = TRUE,
               !.fn = TRUE,
               !.idx = db.idx \cup {ix \in NON_PK_INDEXES_TO_CREATE :
                                        ix.name \notin IndexNames(db)}]

\* A row that reached the table before this pipeline wrote it (another
\* writer): no customer_id, event time in the trailing day.
LegacyRow ==
    [customer_id      |-> NULL,
     event_start_time |-> <<Now - 6>>,
     event_type       |-> <<"data">>,
     rate_plan_id     |-> <<10>>,
     billing_flag_one |-> <<0>>,
     billing_flag_two |-> <<0>>,
     duration         |-> <<60>>,
     charge           |-> <<200000000>>,
     month            |-> <<"2026-10">>,
     event_uuid       |-> <<UuidBody(NULL, <<Now - 6>>, <<"data">>, <<10>>, <<200000000>>)>>]

\* Rows of the same origin around the retention boundary: one hour older
\* than RETENTION_PERIOD_MONTHS months, exactly that old, and one with no
\* event time (the column is nullable).
ArchiveRow(t) ==
    [LegacyRow EXCEPT !.customer_id = <<2>>,
                      !.event_start_time = t,
                      !.event_uuid = <<UuidBody(<<2>>, t, <<"data">>, <<10>>, <<200000000>>)>>]

ArchiveRows ==
    {ArchiveRow(<<Now - RETENTION_PERIOD_MONTHS * HoursPerMonth - 1>>),
     ArchiveRow(<<Now - RETENTION_PERIOD_MONTHS * HoursPerMonth>>),
     ArchiveRow(NULL)}

InitialDbs ==
    {FreshDb,
     SetupDdl(FreshDb),
     [SetupDdl(FreshDb) EXCEPT !.rows = {LegacyRow}],
     [SetupDdl(FreshDb) EXCEPT !.rows = ArchiveRows]}

\* ------------------------------------------------- validate_csv_structure
ValidationOk == [kind |-> "ok", row |-> 0, found |-> 0]

RECURSIVE ValidateRows_SamplesSix(_, _)
\* the loop with `if i > 5: break`
ValidateRows_SamplesSix(f, i) ==
    IF i >= Len(f) THEN ValidationOk
    ELSE IF i > VALIDATION_SAMPLE_ROWS THEN ValidationOk
    ELSE IF Len(f[i + 1]) # EXPECTED_CSV_COLUMNS
         THEN [kind |-> "ValueError", row |-> i + 1, found |-> Len(f[i + 1])]
         ELSE ValidateRows_SamplesSix(f, i + 1)

RECURSIVE ValidateRows(_, _)
\* the loop over enumerate(csv_reader); i is the 0-based index
ValidateRows(f, i) ==
    IF i >= Len(f) THEN ValidationOk
    ELSE IF i >= VALIDATION_SAMPLE_ROWS THEN ValidationOk
    ELSE IF Len(f[i + 1]) # EXPECTED_CSV_COLUMNS
         THEN [kind |-> "ValueError", row |-> i + 1, found |-> Len(f[i + 1])]
         ELSE ValidateRows(f, i + 1)

validate_csv_structure(exists, f) ==
    IF ~exists THEN [kind |-> "FileNotFoundError", row |-> 0, found |-> 0]
    ELSE ValidateRows(f, 0)

\* --------------------------------------------------------- load_telco_data
NoTemp == [exists |-> FALSE, rows |-> <<>>]

IsWellFormed(row_parts) == Len(row_parts) = EXPECTED_CSV_COLUMNS

\* the rows written to the in-memory buffer: malformed rows are skipped
AcceptedRows(f) == SelectSeq(f, IsWellFormed)

\* copy_from of the buffer into the staging table
CopyFrom(accepted) == [i \in 1..Len(accepted) |-> CopyRow(accepted[i])]

\* for each name of NON_PK_INDEXES_TO_CREATE found in pg_class: DROP INDEX
DropExistingIndexes(db) ==
    [db EXCEPT !.idx = {ix \in db.idx :
                          ix.name \notin {c.name : c \in NON_PK_INDEXES_TO_CREATE}}]

RECURSIVE MergeRows_Upsert(_, _, _)
\* the merge with ON CONFLICT (event_uuid) DO UPDATE: the staged row replaces
\* the stored one
MergeRows_Upsert(rows, staged, i) ==
    IF i > Len(staged) THEN [rows |-> rows, count |-> 0, err |-> "none"]
    ELSE LET r == WithUuid(staged[i])
         IN  IF r.event_uuid = NULL
             THEN [rows |-> rows, count |-> 0, err |-> "NotNullViolation"]
             ELSE LET kept == {x \in rows : x.event_uuid # r.event_uuid}
                      rest == MergeRows_Upsert(kept \cup {r}, staged, i + 1)
                  IN  [rest EXCEPT !.count = @ + 1]

RECURSIVE MergeRows(_, _, _)
\* INSERT INTO telco_billings_usage SELECT s.*, generate_event_uuid(...)
\* FROM staging s ON CONFLICT (event_uuid) DO NOTHING, from staged row i on.
\* event_uuid is the PRIMARY KEY: a NULL identity violates NOT NULL and
\* aborts the statement; an identity already present is skipped.
MergeRows(rows, staged, i) ==
    IF i > Len(staged) THEN [rows |-> rows, count |-> 0, err |-> "none"]
    ELSE LET r == WithUuid(staged[i])
         IN  IF r.event_uuid = NULL
             THEN [rows |-> rows, count |-> 0, err |-> "NotNullViolation"]
             ELSE IF \E x \in rows : x.event_uuid = r.event_uuid
                  THEN MergeRows(rows, staged, i + 1)
                  ELSE LET rest == MergeRows(rows \cup {r}, staged, i + 1)
                       IN  [rest EXCEPT !.count = @ + 1]

\* CREATE INDEX (no IF NOT EXISTS) for each of NON_PK_INDEXES_TO_RECREATE
RecreateClash(db) ==
    \E ix \in NON_PK_INDEXES_TO_RECREATE : ix.name \in IndexNames(db)

RecreateIndexes(db) == [db EXCEPT !.idx = @ \cup NON_PK_INDEXES_TO_RECREATE]

LoadSteps ==
    <<"create_staging", "read_csv", "copy", "count", "drop_indexes", "merge",
      "recreate_indexes", "commit">>

StepNo(step) == CHOOSE n \in 1..Len(LoadSteps) : LoadSteps[n] = step

LoadFailPoints == {"none"} \cup {LoadSteps[n] : n \in 1..Len(LoadSteps)}

\* a handler that leaves the transaction's changes in place
Rollback_KeepsChanges(durable, tx) == tx

\* conn.rollback(): the transaction's changes, DDL included, are undone
Rollback(durable, tx) == durable

\* a loader that never takes the early return
NoValidRows_Never(processed_rows_for_copy) == FALSE

\* if processed_rows_for_copy == 0: return 0
NoValidRows(processed_rows_for_copy) == processed_rows_for_copy = 0

\* The whole of load_telco_data on the transaction image db; fail names the
\* statement at which the environment (server, connection, file system)
\* raises, "none" when it does not.  Result: what was raised, the value
\* returned, the statements completed, the transaction image reached, and
\* whether conn.commit() was executed.
LoadOutcome(db, f, fail) ==
    LET failNo    == IF fail = "none" THEN Len(LoadSteps) + 1 ELSE StepNo(fail)
        accepted  == AcceptedRows(f)
        processed == Len(accepted)
        staged    == CopyFrom(accepted)
        db1       == DropExistingIndexes(db)
        m         == MergeRows(db1.rows, staged, 1)
        db2       == [db1 EXCEPT !.rows = m.rows]
        db3       == RecreateIndexes(db2)
        Raise(n, cls, e, d) ==
            [raised |-> TRUE, cls |-> cls, err |-> e, ret |-> 0,
             done |-> SubSeq(LoadSteps, 1, n - 1), staged |-> 0,
             db |-> d, temp |-> NoTemp, commit |-> FALSE]
        EnvRaise(n, d) ==
            IF LoadSteps[n] = "read_csv"
            THEN Raise(n, "Exception", "OSError", d)
            ELSE Raise(n, "psycopg2.Error", "OperationalError", d)
    IN  IF failNo <= 2 THEN EnvRaise(failNo, db)
        ELSE IF NoValidRows(processed)
        THEN [raised |-> FALSE, cls |-> "none", err |-> "none", ret |-> 0,
              done |-> SubSeq(LoadSteps, 1, 2), staged |-> 0,
              db |-> db, temp |-> [exists |-> TRUE, rows |-> <<>>],
              commit |-> FALSE]
        ELSE IF failNo <= 5 THEN EnvRaise(failNo, db)
        ELSE IF failNo = 6 THEN EnvRaise(6, db1)
        ELSE IF ~db1.tbl \/ ~db1.fn
        THEN Raise(6, "psycopg2.Error", "UndefinedTable", db1)
        ELSE IF m.err # "none" THEN Raise(6, "psycopg2.Error", m.err, db1)
        ELSE IF failNo = 7 THEN EnvRaise(7, db2)
        ELSE IF RecreateClash(db2)
        THEN Raise(7, "psycopg2.Error", "DuplicateTable", db2)
        ELSE IF failNo = 8 THEN EnvRaise(8, db3)
        ELSE [raised |-> FALSE, cls |-> "none", err |-> "none", ret |-> m.count,
              done |-> LoadSteps, staged |-> Len(staged),
              db |-> db3, temp |-> NoTemp, commit |-> TRUE]

\* ------------------------------------------------ run_data_quality_checks
\* a missing-values query without its time window
RecentRows_WholeTable(db) ==
    {r \in db.rows : r.event_start_time # NULL}

RecentRows(db) ==
    {r \in db.rows : /\ r.event_start_time # NULL
                     /\ r.event_start_time[1] >= Now - HoursPerDay
                     /\ r.event_start_time[1] < Now}

\* SQL_CHECK_MISSING_VALUES: SUM over no rows is NULL, COUNT(*) is 0
SumOrNull(n, total) == IF total = 0 THEN NULL ELSE <<n>>

SQL_CHECK_MISSING_VALUES(db) ==
    LET recent == RecentRows(db)
        total  == Cardinality(recent)
    IN  <<SumOrNull(Cardinality({r \in recent : r.customer_id = NULL}), total),
          SumOrNull(Cardinality({r \in recent : r.event_start_time = NULL}), total),
          SumOrNull(Cardinality({r \in recent : r.event_type = NULL}), total),
          <<total>>>>

SQL_CHECK_FUTURE_DATES(db) ==
    <<<<Cardinality({r \in db.rows : /\ r.event_start_time # NULL
                                      /\ r.event_start_time[1] > Now})>>>>

\* val if val is not None else 0
ZeroIfNone(v) == IF v = NULL THEN 0 ELSE v[1]

\* cursor.fetchone() when the query produced no row (None)
NoResultRow == <<>>

\* lines 173-178: the issues appended for the result of the first query
MissingIssuesOf(res_missing) ==
    IF res_missing = NoResultRow THEN <<>>
    ELSE
    LET m_cid   == ZeroIfNone(res_missing[1])
        m_time  == ZeroIfNone(res_missing[2])
        m_etype == ZeroIfNone(res_missing[3])
        total   == ZeroIfNone(res_missing[4])
    IN  IF total > 0 /\ (m_cid > 0 \/ m_time > 0 \/ m_etype > 0)
        THEN <<"Missing values (cust/time/type): " \o ToString(m_cid) \o "/" \o
               ToString(m_time) \o "/" \o ToString(m_etype) \o " in " \o
               ToString(total) \o " recent rows.">>
        ELSE <<>>

\* lines 183-188: the issues appended for the result of the second query
FutureIssuesOf(res_future) ==
    IF res_future = NoResultRow THEN <<>>
    ELSE
    LET future_count == ZeroIfNone(res_future[1])
    IN  IF future_count > 0
        THEN <<"Future-dated events: " \o ToString(future_count) \o ".">>
        ELSE <<>>

MissingIssues(db) == MissingIssuesOf(SQL_CHECK_MISSING_VALUES(db))

FutureIssues(db) == FutureIssuesOf(SQL_CHECK_FUTURE_DATES(db))

\* run_data_quality_checks when no statement raises, given what the two
\* fetchone() calls returned
DqReturn(res_missing, res_future) ==
    LET issues == MissingIssuesOf(res_missing) \o FutureIssuesOf(res_future)
    IN  [raised |-> FALSE, good |-> issues = <<>>, issues |-> issues,
         before |-> issues, failed |-> FALSE]

DqFailPoints == {"none", "missing_query", "future_query"}

\* a handler that appends the exception to the issues collected so far
DqExcept_KeepsIssues(issues, text) ==
    [raised |-> FALSE, good |-> FALSE,
     issues |-> Append(issues, "DQ Exception: " \o text),
     before |-> issues, failed |-> TRUE]

\* except Exception as e: return False, [f"DQ Exception: {str(e)}"]
DqExcept(issues, text) ==
    [raised |-> FALSE, good |-> FALSE, issues |-> <<"DQ Exception: " \o text>>,
     before |-> issues, failed |-> TRUE]

\* The whole of run_data_quality_checks; fail names the query at which the
\* environment raises.  before: the issues collected when the exception was
\* caught; failed: the transaction is left in the failed state.
DqOutcome(db, tx_failed, fail) ==
    LET first == MissingIssues(db)
    IN  IF tx_failed THEN DqExcept(<<>>, "InFailedSqlTransaction")
        ELSE IF fail = "missing_query" THEN DqExcept(<<>>, "OperationalError")
        ELSE IF ~db.tbl THEN DqExcept(<<>>, "UndefinedTable")
        ELSE IF fail = "future_query" THEN DqExcept(first, "OperationalError")
        ELSE DqReturn(SQL_CHECK_MISSING_VALUES(db), SQL_CHECK_FUTURE_DATES(db))

\* ------------------------------------ views and retention (statement level)
CreateViews(db) == [db EXCEPT !.views = @ \cup AnalyticsViews]

\* get_sql_delete_old_data: DELETE ... WHERE event_start_time <
\* (CURRENT_TIMESTAMP - INTERVAL 'n months'); NULL event times do not match
RetentionCutoff(months) == Now - months * HoursPerMonth

\* a DELETE whose comparison is <= instead of <
DeleteOldData_IncludesBoundary(db, months) ==
    [db EXCEPT !.rows = {r \in @ : \/ r.event_start_time = NULL
                                   \/ ~(r.event_start_time[1] <= RetentionCutoff(months))}]

DeleteOldData(db, months) ==
    [db EXCEPT !.rows = {r \in @ : \/ r.event_start_time = NULL
                                   \/ ~(r.event_start_time[1] < RetentionCutoff(months))}]

\* The whole of apply_pipeline_data_retention on the transaction image db:
\* nothing when the policy is disabled, else one DELETE and conn.commit();
\* ok is FALSE when the environment raises at the commit.  deletes: the
\* DELETE statements executed.
RetentionOutcome(db, enabled, ok) ==
    IF ~enabled
    THEN [raised |-> FALSE, deletes |-> 0, db |-> db, commit |-> FALSE]
    ELSE IF ok
    THEN [raised |-> FALSE, deletes |-> 1,
          db |-> DeleteOldData(db, RETENTION_PERIOD_MONTHS), commit |-> TRUE]
    ELSE [raised |-> TRUE, deletes |-> 1,
          db |-> DeleteOldData(db, RETENTION_PERIOD_MONTHS), commit |-> FALSE]

\* ------------------------------------------------------------------ state
VARIABLES
    committed,   \* the database as committed
    working,     \* the database as the connection's open transaction sees it
    temp,        \* the TEMP staging table of the connection (ON COMMIT DROP)
    txFailed,    \* the open transaction is in the failed state
    retention,   \* ENABLE_RETENTION_POLICY
    pc,          \* the next step of run_etl_process, or how the last call ended
    file,        \* the rows of the input file
    fileExists,  \* os.path.exists(file_path)
    validation,  \* what validate_csv_structure returned or raised
    runs,        \* calls made so far
    exitCode,    \* "none" while running, "0" normal end, "1" sys.exit(1)
    raisedCls,   \* history: the class of the exception caught by the except
                 \* clauses of run_etl_process, "none" when there was none
    alerts,      \* send_alert calls of the current run: [subject, issues]
    dq,          \* what run_data_quality_checks returned
    lastLoad,    \* history: the last call of load_telco_data in this run,
                 \* with (prev) the call before it when it loaded the same file
    lastRetention, \* history: the last call of apply_pipeline_data_retention
    runStart,    \* history: committed when the run began
    stageStart,  \* history: committed when the current stage began
    stage        \* history: the stage that ran last

vars ==
    <<committed, working, temp, txFailed, retention, pc, file, fileExists,
      validation, runs, exitCode, raisedCls, alerts, dq, lastLoad,
      lastRetention, runStart, stageStart, stage>>

NotValidated == [kind |-> "none", row |-> 0, found |-> 0]

NoDq == [raised |-> FALSE, good |-> TRUE, issues |-> <<>>, before |-> <<>>,
         failed |-> FALSE, called |-> FALSE, fetched |-> <<TRUE, TRUE>>]

NoPrev == [ok |-> FALSE, file |-> <<>>, post |-> {}]

NoLoad ==
    [called |-> FALSE, file |-> <<>>, fail |-> "none", pre |-> FreshDb,
     post |-> FreshDb, raised |-> FALSE, err |-> "none", ret |-> 0,
     done |-> <<>>, staged |-> 0, tx |-> FreshDb, prev |-> NoPrev]

NoRetention ==
    [called |-> FALSE, enabled |-> FALSE, raised |-> FALSE, deletes |-> 0,
     pre |-> {}, post |-> {}]

Ended == {"done", "exit1", "returned"}

Init ==
    /\ committed \in InitialDbs
    /\ working = committed
    /\ temp = NoTemp
    /\ txFailed = FALSE
    /\ retention \in BOOLEAN
    /\ pc = "idle"
    /\ file = <<>>
    /\ fileExists = FALSE
    /\ validation = NotValidated
    /\ runs = 0
    /\ exitCode = "none"
    /\ raisedCls = "none"
    /\ alerts = <<>>
    /\ dq = NoDq
    /\ lastLoad = NoLoad
    /\ lastRetention = NoRetention
    /\ runStart = committed
    /\ stageStart = committed
    /\ stage = "none"

\* ------------------------------------------------ run_etl_process: handlers
\* The except clauses of run_etl_process: the alert sent for each class.
AlertFor(cls, text) ==
    CASE cls = "FileNotFoundError" ->
           [subject |-> "Telco ETL Critical Failure: Input File Missing",
            issues |-> <<text>>]
      [] cls = "ValueError" ->
           [subject |-> "Telco ETL Critical Failure: Data Validation Error",
            issues |-> <<text>>]
      [] cls = "psycopg2.Error" ->
           [subject |-> "Telco ETL Critical Failure: Database Error",
            issues |-> <<"DB Error: " \o text \o ". Check logs.">>]
      [] OTHER ->
           [subject |-> "Telco ETL Critical Failure: Unexpected System Error",
            issues |-> <<"Error: " \o text>>]

\* an except clause that exits without sending the alert
Fatal_ExitsWithoutAlert(cls, text) ==
    /\ alerts' = alerts
    /\ exitCode' = "1"
    /\ raisedCls' = cls
    /\ pc' = "exit1"
    /\ temp' = NoTemp
    /\ txFailed' = FALSE

\* The exception leaves the `with managed_db_connection()` block (the
\* connection is closed), an alert is sent, sys.exit(1).
Fatal(cls, text) ==
    /\ alerts' = Append(alerts, AlertFor(cls, text))
    /\ exitCode' = "1"
    /\ raisedCls' = cls
    /\ pc' = "exit1"
    /\ temp' = NoTemp
    /\ txFailed' = FALSE

ValidationText(v) ==
    IF v.kind = "FileNotFoundError" THEN "CSV Validation Error: File not found."
    ELSE "CSV Validation Error (Row " \o ToString(v.row) \o "): Expected " \o
         ToString(EXPECTED_CSV_COLUMNS) \o ", found " \o ToString(v.found)

\* run_etl_process begins: validate_csv_structure(csv_file_path)
RunValidate(f, exists) ==
    /\ pc = "idle"
    /\ runs < MaxRuns
    /\ exists \/ f = <<>>
    /\ LET v == validate_csv_structure(exists, f)
       IN  /\ validation' = v
           /\ IF v.kind = "ok"
              THEN /\ pc' = "connect"
                   /\ alerts' = <<>>
                   /\ exitCode' = "none"
                   /\ raisedCls' = "none"
              ELSE /\ pc' = "exit1"
                   /\ alerts' = <<AlertFor(v.kind, ValidationText(v))>>
                   /\ exitCode' = "1"
                   /\ raisedCls' = v.kind
    /\ file' = f
    /\ fileExists' = exists
    /\ runs' = runs + 1
    /\ working' = committed
    /\ temp' = NoTemp
    /\ txFailed' = FALSE
    /\ dq' = NoDq
    /\ lastLoad' = NoLoad
    /\ lastRetention' = NoRetention
    /\ runStart' = committed
    /\ stageStart' = committed
    /\ stage' = "validate"
    /\ UNCHANGED <<committed, retention>>

\* with managed_db_connection() as conn: conn.autocommit = False
Connect(ok) ==
    /\ pc = "connect"
    /\ stage' = "connect"
    /\ stageStart' = committed
    /\ working' = committed
    /\ IF ok
       THEN /\ pc' = "setup"
            /\ UNCHANGED <<alerts, exitCode, raisedCls, temp, txFailed>>
       ELSE Fatal("psycopg2.Error", "OperationalError")
    /\ UNCHANGED <<committed, retention, file, fileExists, validation, runs, dq,
                   lastLoad, lastRetention, runStart>>

\* the DDL done when a statement of setup_pipeline_db_structure fails at the
\* index creation
SetupPartial(db) == [db EXCEPT !.tbl = TRUE, !.fn = TRUE]

\* setup_pipeline_db_structure without its conn.commit()
Setup_NoCommit(ok) ==
    /\ pc = "setup"
    /\ stage' = "setup"
    /\ stageStart' = committed
    /\ IF ok
       THEN /\ working' = SetupDdl(working)
            /\ pc' = "load"
            /\ temp' = NoTemp
            /\ UNCHANGED <<committed, alerts, exitCode, raisedCls, txFailed>>
       ELSE /\ committed' = Rollback(committed, SetupPartial(working))
            /\ working' = committed'
            /\ Fatal("psycopg2.Error", "OperationalError")
    /\ UNCHANGED <<retention, file, fileExists, validation, runs, dq, lastLoad,
                   lastRetention, runStart>>

\* setup_pipeline_db_structure(conn): DDL, then conn.commit(); on an
\* exception conn.rollback() and re-raise
Setup(ok) ==
    /\ pc = "setup"
    /\ stage' = "setup"
    /\ stageStart' = committed
    /\ IF ok
       THEN /\ committed' = SetupDdl(working)
            /\ working' = committed'
            /\ pc' = "load"
            /\ temp' = NoTemp
            /\ UNCHANGED <<alerts, exitCode, raisedCls, txFailed>>
       ELSE /\ committed' = Rollback(committed, SetupPartial(working))
            /\ working' = committed'
            /\ Fatal("psycopg2.Error", "OperationalError")
    /\ UNCHANGED <<retention, file, fileExists, validation, runs, dq, lastLoad,
                   lastRetention, runStart>>

\* What a call of load_telco_data with outcome out does to the database and
\* to the history of loads.
LoadEffect(f, fail, pre, out, prev) ==
    /\ IF out.raised
       THEN committed' = Rollback(committed, out.db)
       ELSE IF out.commit THEN committed' = out.db
       ELSE committed' = committed
    /\ lastLoad' =
         [called |-> TRUE, file |-> f, fail |-> fail, pre |-> pre,
          post |-> committed', raised |-> out.raised, err |-> out.err,
          ret |-> out.ret, done |-> out.done, staged |-> out.staged,
          tx |-> out.db, prev |-> prev]

\* rows_loaded_info = load_telco_data(csv_file_path, conn)
Load(fail) ==
    /\ pc = "load"
    /\ stage' = "load"
    /\ stageStart' = committed
    /\ LET out == LoadOutcome(working, file, fail)
       IN  /\ LoadEffect(file, fail, working, out, NoPrev)
           /\ IF out.raised
              THEN /\ working' = committed'
                   /\ Fatal(out.cls, out.err)
              ELSE /\ working' = out.db
                   /\ temp' = out.temp
                   /\ pc' = "dq"
                   /\ UNCHANGED <<alerts, exitCode, raisedCls, txFailed>>
    /\ UNCHANGED <<retention, file, fileExists, validation, runs, dq,
                   lastRetention, runStart>>

\* load_telco_data called on its own on a new connection, which the caller
\* closes afterwards
DirectLoad(f, fail) ==
    /\ pc = "idle"
    /\ runs < MaxRuns
    /\ LET out == LoadOutcome(committed, f, fail)
       IN  LoadEffect(f, fail, committed, out, NoPrev)
    /\ working' = committed'
    /\ pc' = "returned"
    /\ file' = f
    /\ fileExists' = TRUE
    /\ validation' = NotValidated
    /\ runs' = runs + 1
    /\ temp' = NoTemp
    /\ txFailed' = FALSE
    /\ exitCode' = "none"
    /\ raisedCls' = "none"
    /\ alerts' = <<>>
    /\ dq' = NoDq
    /\ lastRetention' = NoRetention
    /\ runStart' = committed
    /\ stageStart' = committed
    /\ stage' = "load"
    /\ UNCHANGED retention

\* load_telco_data called a second time with the same file, after a first
\* call that loaded it into the empty table
LoadSameFileAgain(fail) ==
    /\ pc = "returned"
    /\ runs < MaxRuns
    /\ lastLoad.called
    /\ ~lastLoad.raised
    /\ lastLoad.pre.tbl
    /\ lastLoad.pre.rows = {}
    /\ LET out == LoadOutcome(committed, file, fail)
       IN  LoadEffect(file, fail, committed, out,
                      [ok |-> TRUE, file |-> lastLoad.file, post |-> lastLoad.post.rows])
    /\ working' = committed'
    /\ runs' = runs + 1
    /\ runStart' = committed
    /\ stageStart' = committed
    /\ UNCHANGED <<temp, txFailed, retention, pc, file, fileExists, validation,
                   exitCode, raisedCls, alerts, dq, lastRetention, stage>>

\* send_alert("Telco DWH ETL: Data Quality Issues Found", dq_issues)
DqAlert(issues) ==
    [subject |-> "Telco DWH ETL: Data Quality Issues Found", issues |-> issues]

\* is_quality_good, dq_issues = run_data_quality_checks(conn), then the alert
DataQuality(fail) ==
    /\ pc = "dq"
    /\ stage' = "dq"
    /\ stageStart' = committed
    /\ LET out == DqOutcome(working, txFailed, fail)
       IN  /\ dq' = [raised |-> out.raised, good |-> out.good,
                     issues |-> out.issues, before |-> out.before,
                     failed |-> out.failed, called |-> TRUE,
                     fetched |-> <<TRUE, TRUE>>]
           /\ IF out.raised
              THEN /\ Fatal("psycopg2.Error", "OperationalError")
                   /\ working' = committed
              ELSE /\ pc' = "views"
                   /\ txFailed' = out.failed
                   /\ alerts' =
                        IF out.good THEN alerts
                        ELSE Append(alerts, DqAlert(out.issues))
                   /\ UNCHANGED <<working, temp, exitCode, raisedCls>>
    /\ UNCHANGED <<committed, retention, file, fileExists, validation, runs,
                   lastLoad, lastRetention, runStart>>

\* create_pipeline_analytics_views(conn): two CREATE OR REPLACE VIEW, commit
Views(ok) ==
    /\ pc = "views"
    /\ stage' = "views"
    /\ stageStart' = committed
    /\ IF ok /\ ~txFailed /\ working.tbl
       THEN /\ committed' = CreateViews(working)
            /\ working' = committed'
            /\ pc' = "retention"
            /\ temp' = NoTemp
            /\ UNCHANGED <<alerts, exitCode, raisedCls, txFailed>>
       ELSE /\ committed' = Rollback(committed, working)
            /\ working' = committed'
            /\ Fatal("psycopg2.Error",
                     IF txFailed THEN "InFailedSqlTransaction" ELSE "OperationalError")
    /\ UNCHANGED <<retention, file, fileExists, validation, runs, dq, lastLoad,
                   lastRetention, runStart>>

\* apply_pipeline_data_retention(conn), then the connection is closed and
\* run_etl_process returns
Retention(ok) ==
    /\ pc = "retention"
    /\ ok \/ retention
    /\ stage' = "retention"
    /\ stageStart' = committed
    /\ LET out == RetentionOutcome(working, retention, ok)
       IN  /\ committed' = IF out.raised THEN Rollback(committed, out.db)
                           ELSE IF out.commit THEN out.db
                           ELSE committed
           /\ working' = committed'
           /\ lastRetention' =
                 [called |-> TRUE, enabled |-> retention, raised |-> out.raised,
                  deletes |-> out.deletes, pre |-> working.rows,
                  post |-> committed'.rows]
           /\ IF out.raised
              THEN Fatal("psycopg2.Error", "OperationalError")
              ELSE /\ pc' = "done"
                   /\ exitCode' = "0"
                   /\ raisedCls' = "none"
                   /\ temp' = NoTemp
                   /\ UNCHANGED <<alerts, txFailed>>
    /\ UNCHANGED <<retention, file, fileExists, validation, runs, dq, lastLoad,
                   runStart>>

\* The process ends (return from run_etl_process, sys.exit, or the direct
\* caller returning): only the database and the configuration outlive it.
ProcessExit ==
    /\ pc \in Ended
    /\ pc' = "idle"
    /\ working' = committed
    /\ temp' = NoTemp
    /\ txFailed' = FALSE
    /\ file' = <<>>
    /\ fileExists' = FALSE
    /\ validation' = NotValidated
    /\ exitCode' = "none"
    /\ raisedCls' = "none"
    /\ alerts' = <<>>
    /\ dq' = NoDq
    /\ lastLoad' = NoLoad
    /\ lastRetention' = NoRetention
    /\ runStart' = committed
    /\ stageStart' = committed
    /\ stage' = "none"
    /\ UNCHANGED <<committed, retention, runs>>

\* run_etl_process(csv_file_path) is started on some input file
RunEtlProcess ==
    /\ pc = "idle"
    /\ \E f \in Files, exists \in BOOLEAN : RunValidate(f, exists)

\* load_telco_data(file_path, conn) is called on some input file
CallLoadTelcoData ==
    /\ pc = "idle"
    /\ \E f \in Files, fail \in LoadFailPoints : DirectLoad(f, fail)

Next ==
    \/ RunEtlProcess
    \/ \E ok \in BOOLEAN : Connect(ok)
    \/ \E ok \in BOOLEAN : Setup(ok)
    \/ \E fail \in LoadFailPoints : Load(fail)
    \/ CallLoadTelcoData
    \/ \E fail \in LoadFailPoints : LoadSameFileAgain(fail)
    \/ \E fail \in DqFailPoints : DataQuality(fail)
    \/ \E ok \in BOOLEAN : Views(ok)
    \/ \E ok \in BOOLEAN : Retention(ok)
    \/ ProcessExit

Spec == Init /\ [][Next]_vars

\* ------------------------------- validate_csv_structure on sampled files
\* Files given by their rows' column counts only, long enough to have rows
\* after the sampled prefix.
RowOfWidth(n) == [i \in 1..n |-> "x"]

SampleRows == {RowOfWidth(8), RowOfWidth(9), RowOfWidth(10)}

SampleFiles == SeqsUpTo(SampleRows, MaxSampleFileRows)

InitValidate ==
    /\ committed = FreshDb
    /\ working = committed
    /\ temp = NoTemp
    /\ txFailed = FALSE
    /\ retention = FALSE
    /\ pc = "idle"
    /\ file \in SampleFiles
    /\ fileExists \in BOOLEAN
    /\ fileExists \/ file = <<>>
    /\ validation = NotValidated
    /\ runs = 0
    /\ exitCode = "none"
    /\ raisedCls = "none"
    /\ alerts = <<>>
    /\ dq = NoDq
    /\ lastLoad = NoLoad
    /\ lastRetention = NoRetention
    /\ runStart = committed
    /\ stageStart = committed
    /\ stage = "none"

\* validate_csv_structure(file_path) called on its own
ValidateOnly ==
    /\ pc = "idle"
    /\ validation' = validate_csv_structure(fileExists, file)
    /\ pc' = "returned"
    /\ stage' = "validate"
    /\ UNCHANGED <<committed, working, temp, txFailed, retention, file,
                   fileExists, runs, exitCode, raisedCls, alerts, dq, lastLoad,
                   lastRetention, runStart, stageStart>>

NextValidate == ValidateOnly

SpecValidate == InitValidate /\ [][NextValidate]_vars

\* ------------------------- run_data_quality_checks on any table content
\* Rows differing in what the two checks look at: event time inside, at the
\* edges of and outside the trailing day, absent customer_id, event_type
\* and event time, and a future event.
DqRow(cid, t, type) ==
    [LegacyRow EXCEPT !.customer_id = cid,
                      !.event_start_time = t,
                      !.event_type = type,
                      !.event_uuid = <<UuidBody(cid, t, type, <<10>>, <<200000000>>)>>]

DqRowPool ==
    {DqRow(<<1>>, <<Now - 12>>, <<"voice">>),
     DqRow(NULL, <<Now - 6>>, <<"data">>),
     DqRow(<<1>>, <<Now - 3>>, NULL),
     DqRow(NULL, <<Now - HoursPerDay>>, <<"sms">>),
     DqRow(NULL, <<Now - HoursPerDay - 1>>, <<"sms">>),
     DqRow(NULL, <<Now>>, <<"sms">>),
     DqRow(<<2>>, <<Now + 24>>, <<"sms">>),
     DqRow(<<2>>, NULL, <<"data">>)}

InitDq ==
    /\ committed \in {[SetupDdl(FreshDb) EXCEPT !.rows = R] : R \in SUBSET DqRowPool}
    /\ working = committed
    /\ temp = NoTemp
    /\ txFailed = FALSE
    /\ retention = FALSE
    /\ pc = "idle"
    /\ file = <<>>
    /\ fileExists = FALSE
    /\ validation = NotValidated
    /\ runs = 0
    /\ exitCode = "none"
    /\ raisedCls = "none"
    /\ alerts = <<>>
    /\ dq = NoDq
    /\ lastLoad = NoLoad
    /\ lastRetention = NoRetention
    /\ runStart = committed
    /\ stageStart = committed
    /\ stage = "none"

\* run_data_quality_checks(conn) called on its own, no statement raising;
\* got_missing, got_future: the fetchone() of each query returned a row
DqOnly(got_missing, got_future) ==
    /\ pc = "idle"
    /\ LET out == DqReturn(IF got_missing THEN SQL_CHECK_MISSING_VALUES(working)
                                          ELSE NoResultRow,
                           IF got_future THEN SQL_CHECK_FUTURE_DATES(working)
                                         ELSE NoResultRow)
       IN  dq' = [raised |-> out.raised, good |-> out.good,
                  issues |-> out.issues, before |-> out.before,
                  failed |-> out.failed, called |-> TRUE,
                  fetched |-> <<got_missing, got_future>>]
    /\ pc' = "returned"
    /\ stage' = "dq"
    /\ UNCHANGED <<committed, working, temp, txFailed, retention, file,
                   fileExists, validation, runs, exitCode, raisedCls, alerts,
                   lastLoad, lastRetention, runStart, stageStart>>

NextDq == \E got_missing, got_future \in BOOLEAN : DqOnly(got_missing, got_future)

SpecDq == InitDq /\ [][NextDq]_vars

\* ================================================================ claims
\* The typed business tuple of an accepted CSV row.
BusinessTuple(r) ==
    LET s == CopyRow(r)
    IN  <<s.customer_id, s.event_start_time, s.event_type, s.rate_plan_id, s.charge>>

StoredTuple(x) ==
    <<x.customer_id, x.event_start_time, x.event_type, x.rate_plan_id, x.charge>>

AcceptedSet(f) == {f[i] : i \in {j \in 1..Len(f) : IsWellFormed(f[j])}}

DistinctTuples(f) == {BusinessTuple(r) : r \in AcceptedSet(f)}

HasAbsentBusinessField(r) ==
    \E k \in 1..5 : BusinessTuple(r)[k] = NULL

\* A call of load_telco_data that met no environment failure, on a database
\* where setup has been done.
LoadRanClean ==
    /\ lastLoad.called
    /\ lastLoad.fail = "none"
    /\ lastLoad.pre.tbl
    /\ lastLoad.pre.fn

\* C9: validate_csv_structure raises FileNotFoundError for a missing path;
\* otherwise it looks at the first 5 rows only, raises ValueError naming the
\* 1-based index (and the column count) of the first of them whose column
\* count is not 9, and returns success exactly when all of them have 9.
C9_ValidatorSamplesFirstFive ==
    validation.kind # "none" =>
        IF ~fileExists THEN validation.kind = "FileNotFoundError"
        ELSE LET n   == IF Len(file) < 5 THEN Len(file) ELSE 5
                 bad == {i \in 1..n : Len(file[i]) # 9}
             IN  IF bad = {} THEN validation = ValidationOk
                 ELSE /\ validation.kind = "ValueError"
                      /\ validation.row \in bad
                      /\ \A i \in bad : validation.row <= i
                      /\ validation.found = Len(file[validation.row])

\* C9 witness: success on a file whose 6th row is malformed
C9_Witness ==
    /\ validation.kind = "ok"
    /\ Len(file) >= 6
    /\ Len(file[6]) # 9

\* The identity the function body gives an accepted CSV row (absent fields
\* as the empty string).
IntendedUuid(r) ==
    LET t == BusinessTuple(r)
    IN  <<UuidBody(t[1], t[2], t[3], t[4], t[5])>>

\* C1: loading a file with N distinct business tuples into an empty table
\* inserts and reports N rows; loading the same file a second time inserts
\* and reports 0 rows and leaves the rows unchanged.
C1_LoadIsIdempotent ==
    LoadRanClean =>
        /\ lastLoad.pre.rows = {} =>
              /\ ~lastLoad.raised
              /\ lastLoad.ret = Cardinality(DistinctTuples(lastLoad.file))
              /\ Cardinality(lastLoad.post.rows) = Cardinality(DistinctTuples(lastLoad.file))
        /\ ( /\ lastLoad.prev.ok
             /\ lastLoad.prev.file = lastLoad.file
             /\ lastLoad.pre.rows = lastLoad.prev.post ) =>
              /\ ~lastLoad.raised
              /\ lastLoad.ret = 0
              /\ lastLoad.post.rows = lastLoad.pre.rows

\* C1 restricted to files in which no accepted row lacks a business field
C1_IdempotentWithoutAbsentFields ==
    (\A r \in AcceptedSet(lastLoad.file) : ~HasAbsentBusinessField(r))
        => C1_LoadIsIdempotent

\* C2: no two permanent rows share an identity, and a business tuple that
\* occurs k >= 2 times in a loaded file ends as exactly one permanent row
\* (the load does not fail).
C2_OneRowPerRepeatedTuple ==
    /\ \A x, y \in committed.rows : x.event_uuid = y.event_uuid => x = y
    /\ LoadRanClean =>
          \A i, j \in 1..Len(lastLoad.file) :
              ( /\ i < j
                /\ IsWellFormed(lastLoad.file[i])
                /\ IsWellFormed(lastLoad.file[j])
                /\ BusinessTuple(lastLoad.file[i]) = BusinessTuple(lastLoad.file[j]) ) =>
                  /\ ~lastLoad.raised
                  /\ Cardinality({x \in lastLoad.post.rows :
                         StoredTuple(x) = BusinessTuple(lastLoad.file[i])}) = 1

\* C2 restricted to files in which no accepted row lacks a business field
C2_OneRowWithoutAbsentFields ==
    (\A r \in AcceptedSet(lastLoad.file) : ~HasAbsentBusinessField(r))
        => C2_OneRowPerRepeatedTuple

\* C5: an accepted row with absent business fields gets the identity computed
\* with the empty string for each absent field, and the merge inserts it
\* instead of raising.
C5_AbsentFieldsAreHashed ==
    ( /\ LoadRanClean
      /\ \E r \in AcceptedSet(lastLoad.file) : HasAbsentBusinessField(r) ) =>
        /\ ~lastLoad.raised
        /\ \A r \in AcceptedSet(lastLoad.file) :
              \E x \in lastLoad.post.rows :
                  /\ x.event_uuid = IntendedUuid(r)
                  /\ StoredTuple(x) = BusinessTuple(r)

\* C7: a malformed row does not abort a load: rows with a column count other
\* than 9 are skipped and every 9-column row is staged and merged, wherever
\* the malformed rows stand in the file.
C7_MalformedRowsAreSkipped ==
    ( /\ LoadRanClean
      /\ \E i \in 1..Len(lastLoad.file) : ~IsWellFormed(lastLoad.file[i])
      /\ \E i \in 1..Len(lastLoad.file) : IsWellFormed(lastLoad.file[i]) ) =>
        /\ ~lastLoad.raised
        /\ lastLoad.staged = Len(AcceptedRows(lastLoad.file))
        /\ \A r \in AcceptedSet(lastLoad.file) :
              \E x \in lastLoad.post.rows : StoredTuple(x) = BusinessTuple(r)

\* C7 restricted to files in which no accepted row lacks a business field
C7_SkippedWithoutAbsentFields ==
    (\A r \in AcceptedSet(lastLoad.file) : ~HasAbsentBusinessField(r))
        => C7_MalformedRowsAreSkipped

InRun == {"setup", "load", "dq", "views", "retention", "exit1"}

StepsDone(l) == {l.done[n] : n \in 1..Len(l.done)}

C6_FirstWriteWins ==
    lastLoad.called =>
        \A x \in lastLoad.pre.rows :
            /\ x \in lastLoad.post.rows
            /\ \A y \in lastLoad.post.rows : y.event_uuid = x.event_uuid => y = x

\* C6 witness: a completed merge of a file row that has the identity of a
\* stored row and differs from it
C6_Witness ==
    /\ lastLoad.called
    /\ ~lastLoad.raised
    /\ "merge" \in StepsDone(lastLoad)
    /\ \E r \in AcceptedSet(lastLoad.file), x \in lastLoad.pre.rows :
          /\ WithUuid(CopyRow(r)).event_uuid = x.event_uuid
          /\ WithUuid(CopyRow(r)) # x

\* C8: after load_telco_data completes successfully the four secondary
\* indexes exist with the names and definitions they had before, whatever
\* the merge inserted (zero rows included); the indexes are dropped before
\* the merge and recreated after it.
C8_IndexesRestoredAfterLoad ==
    (lastLoad.called /\ ~lastLoad.raised) =>
        /\ lastLoad.post.idx = lastLoad.pre.idx
        /\ "merge" \in StepsDone(lastLoad) =>
              /\ lastLoad.done = LoadSteps
              /\ lastLoad.post.idx = NON_PK_INDEXES_TO_CREATE
              /\ Cardinality(lastLoad.post.idx) = 4

\* C8 witness: a successful load whose merge inserted no row
C8_Witness ==
    /\ lastLoad.called
    /\ ~lastLoad.raised
    /\ lastLoad.staged > 0
    /\ lastLoad.ret = 0
    /\ "recreate_indexes" \in StepsDone(lastLoad)
    /\ Cardinality(committed.idx) = 4

DqExceptionTexts == {"OperationalError", "UndefinedTable", "InFailedSqlTransaction"}

\* C10: run_data_quality_checks never raises: on an exception in either
\* query it returns False with exactly one issue, which carries the
\* exception text; issues collected before the exception are discarded.
C10_DqDowngradesExceptions ==
    dq.called =>
        /\ ~dq.raised
        /\ (stage = "dq" => pc = "views")
        /\ dq.failed =>
              /\ ~dq.good
              /\ Len(dq.issues) = 1
              /\ \E t \in DqExceptionTexts : dq.issues[1] = "DQ Exception: " \o t

\* C10 witness: an exception in the second query after the first had
\* produced an issue
C10_Witness ==
    /\ dq.called
    /\ dq.failed
    /\ dq.before # <<>>
    /\ Len(dq.issues) = 1

\* ---------------------------------------------------------------- C11
\* the alert of a stage that found the transaction aborted
AbortedTransactionAlert == AlertFor("psycopg2.Error", "InFailedSqlTransaction")

\* the rows the load of this run inserted
RowsMerged == lastLoad.post.rows \ lastLoad.pre.rows

\* what C11 says of a run whose quality checker reported failure
AfterDqFailure ==
    /\ RowsMerged \subseteq committed.rows
    /\ \E i \in 1..Len(alerts) : alerts[i] = DqAlert(dq.issues)
    /\ pc \in {"views", "retention", "done", "exit1"}
    /\ pc = "exit1" => alerts[Len(alerts)] # AbortedTransactionAlert

\* C11: when run_data_quality_checks reports failure (an anomaly, or a
\* database error raised inside it), the rows merged by the load stay in
\* the table, the data-quality alert is sent, and the run goes on to the
\* view refresh and retention and ends successfully: no later stage fails
\* because of the data-quality failure.
C11_DqFailureDoesNotStopTheRun ==
    (dq.called /\ ~dq.good) => AfterDqFailure

\* C11 restricted to anomalies found (no exception inside the checker)
C11_AnomalyDoesNotStopTheRun ==
    (dq.called /\ ~dq.good /\ ~dq.failed) => AfterDqFailure

\* a run that ended successfully after the checker had found an anomaly and
\* the load had inserted rows
C11_AnomalyRunEndsSuccessfully ==
    /\ pc = "done"
    /\ dq.called
    /\ ~dq.good
    /\ ~dq.failed
    /\ RowsMerged # {}

\* ---------------------------------------------------------------- C12
InTrailingDay(r) ==
    /\ r.event_start_time # NULL
    /\ Now - HoursPerDay <= r.event_start_time[1]
    /\ r.event_start_time[1] < Now

\* (a) fails: the trailing day has rows and one of them lacks customer id,
\* event time or event type
MissingViolated(rows) ==
    LET W == {r \in rows : InTrailingDay(r)}
    IN  ~ \/ W = {}
          \/ /\ \A r \in W : r.customer_id # NULL
             /\ \A r \in W : r.event_start_time # NULL
             /\ \A r \in W : r.event_type # NULL

\* (b) fails: some row of the table is later than the query time
FutureViolated(rows) ==
    \E r \in rows : r.event_start_time # NULL /\ r.event_start_time[1] > Now

\* C12: for every table content, run_data_quality_checks (no exception)
\* returns passed = True and no issue exactly when (a) the rows of the
\* trailing 24 hours are none or have no absent customer id, event time or
\* event type, and (b) no row of the table is later than the query time;
\* otherwise passed = False with one issue per violated check, the
\* missing-values issue first; a query that yields no result row counts as
\* no anomaly for its check.
C12_DqPassesIffNoAnomaly ==
    dq.called =>
        LET a_fails == dq.fetched[1] /\ MissingViolated(committed.rows)
            b_fails == dq.fetched[2] /\ FutureViolated(committed.rows)
            n       == (IF a_fails THEN 1 ELSE 0) + (IF b_fails THEN 1 ELSE 0)
        IN  /\ dq.good = (~a_fails /\ ~b_fails)
            /\ dq.good = (dq.issues = <<>>)
            /\ Len(dq.issues) = n
            /\ \A i \in 1..Len(dq.issues) :
                  dq.issues[i] # "" /\ (i = 2 => dq.issues[1] # dq.issues[2])

\* C12 witness: a table with a row of the trailing day lacking its customer
\* id, an older row lacking it, a row stamped with the query time and a
\* future row: both checks fail, two issues
C12_Witness ==
    /\ dq.called
    /\ ~dq.good
    /\ Len(dq.issues) = 2
    /\ DqRow(NULL, <<Now - HoursPerDay - 1>>, <<"sms">>) \in committed.rows
    /\ DqRow(NULL, <<Now>>, <<"sms">>) \in committed.rows
    /\ dq.fetched = <<TRUE, TRUE>>

\* ---------------------------------------------------------------- C13
FatalCategories == {"FileNotFoundError", "ValueError", "psycopg2.Error", "Exception"}

CriticalSubjects ==
    {"Telco ETL Critical Failure: Input File Missing",
     "Telco ETL Critical Failure: Data Validation Error",
     "Telco ETL Critical Failure: Database Error",
     "Telco ETL Critical Failure: Unexpected System Error"}

IsAlert(a) ==
    /\ a.subject # ""
    /\ Len(a.issues) >= 1
    /\ \A i \in 1..Len(a.issues) : a.issues[i] # ""

\* every stage of the run returned without raising
EveryStageSucceeded ==
    /\ validation.kind = "ok"
    /\ SetupDdl(committed) = committed
    /\ lastLoad.called /\ ~lastLoad.raised
    /\ dq.called /\ ~dq.raised
    /\ AnalyticsViews \subseteq committed.views
    /\ lastRetention.called /\ ~lastRetention.raised

\* C13: an exception of any fatal category (missing input file, validation
\* error, database error, any other exception) raised by any stage ends
\* run_etl_process with exit status 1, after an alert with the category's
\* subject and a list of issue strings has been sent; exit status 1 arises
\* in no other way; the run ends with status 0 only when every stage
\* succeeded; and whenever the quality checker reports failure the
\* data-quality alert has been sent.
C13_FatalErrorsExitOneWithAlert ==
    /\ raisedCls \in FatalCategories \cup {"none"}
    /\ raisedCls # "none" =>
          /\ exitCode = "1"
          /\ pc = "exit1"
          /\ alerts # <<>>
          /\ IsAlert(alerts[Len(alerts)])
          /\ alerts[Len(alerts)].subject \in CriticalSubjects
          /\ alerts[Len(alerts)].subject = AlertFor(raisedCls, "").subject
    /\ exitCode = "1" <=> raisedCls # "none"
    /\ (lastLoad.called /\ lastLoad.raised /\ pc # "returned") => exitCode = "1"
    /\ (lastRetention.called /\ lastRetention.raised) => exitCode = "1"
    /\ (validation.kind \notin {"ok", "none"} /\ pc # "returned") => exitCode = "1"
    /\ exitCode = "0" =>
          /\ EveryStageSucceeded
          /\ \A i \in 1..Len(alerts) : alerts[i].subject \notin CriticalSubjects
    /\ (dq.called /\ ~dq.good /\ pc # "returned") =>
          \E i \in 1..Len(alerts) : alerts[i] = DqAlert(dq.issues) /\ IsAlert(alerts[i])

\* C13 witness: a run that exits 1 on an exception that is neither a
\* missing file, a validation error nor a database error (the input file
\* cannot be read in the load), after the setup of a new database
C13_Witness ==
    /\ exitCode = "1"
    /\ raisedCls = "Exception"
    /\ stage = "load"
    /\ Len(alerts) = 1
    /\ alerts[1].subject = "Telco ETL Critical Failure: Unexpected System Error"
    /\ runStart = FreshDb

\* ---------------------------------------------------------------- C14
RetentionBoundary == Now - RETENTION_PERIOD_MONTHS * HoursPerMonth

StrictlyOlder(r) ==
    r.event_start_time # NULL /\ r.event_start_time[1] < RetentionBoundary

\* C14: apply_pipeline_data_retention with the policy disabled executes no
\* DELETE and removes no row; with the policy enabled and a period of M
\* months it executes one DELETE that removes exactly the rows whose event
\* time is strictly earlier than (current time - M months): rows at the
\* boundary, later rows and rows without event time stay.
C14_RetentionDeletesStrictlyOlder ==
    (lastRetention.called /\ ~lastRetention.raised) =>
        /\ ~lastRetention.enabled =>
              /\ lastRetention.deletes = 0
              /\ lastRetention.post = lastRetention.pre
        /\ lastRetention.enabled =>
              /\ lastRetention.deletes = 1
              /\ lastRetention.post \subseteq lastRetention.pre
              /\ lastRetention.pre \ lastRetention.post =
                    {r \in lastRetention.pre : StrictlyOlder(r)}
              /\ \A r \in lastRetention.pre :
                    (\/ r.event_start_time = NULL
                     \/ r.event_start_time[1] >= RetentionBoundary)
                        => r \in lastRetention.post
        /\ pc = "done" => committed.rows = lastRetention.post

\* C14 witness: retention enabled, on a table holding a row one hour older
\* than the boundary, a row at the boundary, a row without event time and
\* rows the run has just loaded: only the first is removed
C14_Witness ==
    /\ pc = "done"
    /\ lastRetention.called
    /\ lastRetention.enabled
    /\ ArchiveRows \subseteq lastRetention.pre
    /\ RowsMerged # {}
    /\ lastRetention.pre \ lastRetention.post = {ArchiveRow(<<RetentionBoundary - 1>>)}
    /\ ArchiveRow(<<RetentionBoundary>>) \in committed.rows
    /\ ArchiveRow(NULL) \in committed.rows

\* ---------------------------------------------------------------- C15
\* C15: when no row of the input file has the expected column count,
\* load_telco_data returns 0 without a bulk copy into staging, without
\* dropping or recreating a secondary index and without the merge, and the
\* table's rows are unchanged.
C15_NoValidRowsShortCircuits ==
    (lastLoad.called /\ ~lastLoad.raised /\ AcceptedSet(lastLoad.file) = {}) =>
        /\ lastLoad.ret = 0
        /\ lastLoad.staged = 0
        /\ StepsDone(lastLoad) \cap
              {"copy", "drop_indexes", "merge", "recreate_indexes"} = {}
        /\ lastLoad.tx = lastLoad.pre
        /\ lastLoad.post.rows = lastLoad.pre.rows
        /\ lastLoad.post.idx = lastLoad.pre.idx
        /\ stage = "load" => committed.rows = lastLoad.pre.rows

\* C15 witness: a file of two malformed rows loaded into a table that has
\* rows and its four secondary indexes
C15_Witness ==
    /\ lastLoad.called
    /\ ~lastLoad.raised
    /\ lastLoad.file = <<RowShort, RowLong>>
    /\ lastLoad.ret = 0
    /\ lastLoad.pre.rows # {}
    /\ lastLoad.post.idx = NON_PK_INDEXES_TO_CREATE
    /\ StepsDone(lastLoad) = {"create_staging", "read_csv"}

====
